---- MODULE Spec2Model ----
(***************************************************************************)
(* byecycle: import-cycle detection.  A model of Module / add_import /      *)
(* Module.parse / ImportVisitor / build_digraph (graph.py), cycle_severity  *)
(* and path_to_module_name (misc.py) and the export of _run (cli.py).       *)
(*                                                                         *)
(* Python strings are sequences of one-character strings, Python dicts are  *)
(* sequences of [k, v] records in insertion order, Python sets are sets,    *)
(* Module objects are indices into the sequence `modules` (0 is None).      *)
(***************************************************************************)
EXTENDS Integers, Sequences, FiniteSets, TLC

VARIABLES
    pc,          \* position of the run / which API the caller is using
    walked,      \* Module.parse: the files processed so far, in order
    budget,      \* how many more import statements / add_import calls may come
    modules,     \* the heap of Module objects, in creation order
    module_map,  \* Module.parse: dict name -> Module
    node_data,   \* Module.parse: dict Module -> list of (ImportStatement, ImportKind)
    link,        \* Module.parse: position of the second loop in node_data
    root,        \* the root Module (0 before it is known)
    graph,       \* what build_digraph returned (adjacency with tags and cycle)
    data,        \* what _run exported
    call,        \* the last call made (operation and arguments)
    ret,         \* its outcome
    registered,  \* history: the (owner, target, tag) triples add_import stored
    severity_defaults  \* misc.py: the module-level dict _default_cycle_severity

vars == <<pc, walked, budget, modules, module_map, node_data, link, root,
          graph, data, call, ret, registered, severity_defaults>>

(***************************************************************************)
(* Bounds of the model.                                                    *)
(***************************************************************************)
MaxImports == 2      \* import statements in one analysed source tree
MaxCalls == 2        \* add_import calls made directly by an API caller
MaxDepth == 3        \* syntactic nesting depth of an import statement
MaxOverrides == 1    \* severity overrides passed to one cycle_severity call
MaxLevel == 3        \* dots of a relative import

(***************************************************************************)
(* Python str operations, on sequences of characters.                      *)
(***************************************************************************)
startswith(s, p) == Len(p) <= Len(s) /\ SubSeq(s, 1, Len(p)) = p

endswith(s, p) == Len(p) <= Len(s) /\ SubSeq(s, Len(s) - Len(p) + 1, Len(s)) = p

removeprefix(s, p) == IF startswith(s, p) THEN SubSeq(s, Len(p) + 1, Len(s)) ELSE s

removesuffix(s, p) == IF endswith(s, p) THEN SubSeq(s, 1, Len(s) - Len(p)) ELSE s

RECURSIVE lstrip(_, _)
lstrip(s, c) == IF s # <<>> /\ Head(s) = c THEN lstrip(Tail(s), c) ELSE s

RECURSIVE rstrip(_, _)
rstrip(s, c) ==
    IF s # <<>> /\ s[Len(s)] = c THEN rstrip(SubSeq(s, 1, Len(s) - 1), c) ELSE s

strip(s, c) == rstrip(lstrip(s, c), c)

replace(s, a, b) == [i \in 1..Len(s) |-> IF s[i] = a THEN b ELSE s[i]]

\* s.split(c): "" gives [""], "a..b" gives ["a", "", "b"]
RECURSIVE split(_, _)
split(s, c) ==
    IF \A i \in 1..Len(s) : s[i] # c
    THEN <<s>>
    ELSE LET i == CHOOSE j \in 1..Len(s) :
                      s[j] = c /\ \A k \in 1..(j - 1) : s[k] # c
         IN  <<SubSeq(s, 1, i - 1)>> \o split(SubSeq(s, i + 1, Len(s)), c)

\* c.join(parts)
RECURSIVE join(_, _)
join(parts, c) ==
    IF parts = <<>> THEN <<>>
    ELSE IF Len(parts) = 1 THEN parts[1]
    ELSE parts[1] \o <<c>> \o join(Tail(parts), c)

\* s.rsplit(c, 1)[0]
rsplit_head(s, c) ==
    IF \A i \in 1..Len(s) : s[i] # c
    THEN s
    ELSE LET i == CHOOSE j \in 1..Len(s) :
                      s[j] = c /\ \A k \in (j + 1)..Len(s) : s[k] # c
         IN  SubSeq(s, 1, i - 1)

\* itertools.accumulate(parts, lambda a, b: f"{a}.{b}")
RECURSIVE accumulate(_)
accumulate(parts) ==
    IF Len(parts) <= 1 THEN parts
    ELSE LET front == accumulate(SubSeq(parts, 1, Len(parts) - 1))
         IN  Append(front, front[Len(front)] \o <<".">> \o parts[Len(parts)])

(***************************************************************************)
(* The names of the model's source trees.                                  *)
(***************************************************************************)
s_foo == <<"f", "o", "o">>
s_a == <<"a">>
s_b == <<"b">>
s_c == <<"c">>
s_A == <<"A">>
s_B == <<"B">>
s_x == <<"x">>
s_os == <<"o", "s">>
s_foobar == <<"f", "o", "o", "b", "a", "r">>
s_home == <<"h", "o", "m", "e">>
s_me == <<"m", "e">>
s_dev == <<"d", "e", "v">>
s_src == <<"s", "r", "c">>
s_project == <<"p", "r", "o", "j", "e", "c", "t">>
s_code == <<"c", "o", "d", "e">>
s_py == <<".", "p", "y">>
s_init == <<"_", "_", "i", "n", "i", "t", "_", "_">>

dotted(parts) == join(parts, ".")

n_foo == s_foo
n_foo_a == dotted(<<s_foo, s_a>>)
n_foo_b == dotted(<<s_foo, s_b>>)
n_foo_b_c == dotted(<<s_foo, s_b, s_c>>)
n_foo_x == dotted(<<s_foo, s_x>>)

(***************************************************************************)
(* misc.py: kinds, severities and their order.                             *)
(***************************************************************************)
ImportKind == {"dynamic", "conditional", "typing", "parent", "vanilla"}

EdgeKind == {"good", "bad", "complicated", "skip"}

edge_order == [k \in EdgeKind |->
    CASE k = "bad" -> 0
      [] k = "complicated" -> 1
      [] k = "good" -> 2
      [] k = "skip" -> 3]

default_cycle_severity == [t \in ImportKind |->
    CASE t = "dynamic" -> "complicated"
      [] t = "conditional" -> "complicated"
      [] t = "typing" -> "skip"
      [] t = "parent" -> "complicated"
      [] t = "vanilla" -> "bad"]

\* as severity_map, `parent` taking the severity that is set for `typing`
severity_map_parent_as_typing(kwargs) == [t \in ImportKind |->
    IF t = "parent" /\ "typing" \in DOMAIN kwargs THEN kwargs["typing"]
    ELSE IF t \in DOMAIN kwargs THEN kwargs[t] ELSE default_cycle_severity[t]]

\* {**_default_cycle_severity, **kwargs}
severity_map(kwargs) == [t \in ImportKind |->
    IF t \in DOMAIN kwargs THEN kwargs[t] ELSE severity_defaults[t]]

\* as surviving_tags, with `vanilla` scored whenever it is on either side
surviving_tags_either(tags_a, tags_b) == tags_a \cup tags_b

\* the tags of both directions that are scored: `vanilla` only if on both sides
surviving_tags(tags_a, tags_b) ==
    LET tags == tags_a \cup tags_b
    IN  IF "vanilla" \in tags /\ ("vanilla" \notin tags_a \/ "vanilla" \notin tags_b)
        THEN tags \ {"vanilla"}
        ELSE tags

\* as cycle_severity, taking the last of the sorted severities
cycle_severity_last(tags_a, tags_b, kwargs) ==
    LET tags == tags_a \cup tags_b
        kept == IF "vanilla" \in tags
                   /\ ("vanilla" \notin tags_a \/ "vanilla" \notin tags_b)
                THEN tags \ {"vanilla"} ELSE tags
        severity == {(IF t \in DOMAIN kwargs THEN kwargs[t]
                      ELSE default_cycle_severity[t]) : t \in kept}
    IN  IF severity = {}
        THEN "IndexError"
        ELSE CHOOSE s \in severity :
                 \A o \in severity : edge_order[s] >= edge_order[o]

\* sorted(..., key=edge_order.get)[0]; an empty list raises IndexError
cycle_severity(tags_a, tags_b, kwargs) ==
    LET tags == surviving_tags(tags_a, tags_b)
        severity == {severity_map(kwargs)[t] : t \in tags}
    IN  IF severity = {}
        THEN "IndexError"
        ELSE CHOOSE s \in severity :
                 \A o \in severity : edge_order[s] <= edge_order[o]

\* as tags_after, the union and the drop of `vanilla` made on tags_a itself
tags_after_in_place(tags_a, tags_b) == surviving_tags(tags_a, tags_b)

\* the set the caller passed as tags_a, after cycle_severity returned:
\* `tags_a | tags_b` is a new set and `vanilla` is removed from that one
tags_after(tags_a, tags_b) == tags_a

\* as defaults_after, the overrides merged into the module-level dict
defaults_after_update(kwargs) == severity_map(kwargs)

\* _default_cycle_severity after cycle_severity returned: the dict display
\* {**_default_cycle_severity, **kwargs} is a new dict
defaults_after(kwargs) == severity_defaults

(***************************************************************************)
(* graph.py: class Module.  A Module object is                              *)
(*   [name, parent, children, imports]                                      *)
(* where parent is a Module (0 for None), children is the dict              *)
(* name -> Module and imports is the dict Module -> set of ImportKind.      *)
(* Module.__hash__ and Module.__eq__ go by name, so a dict keyed by Module  *)
(* finds an entry by the name of its key: the keys of `imports` are kept as *)
(* the names of the Modules.                                                *)
(***************************************************************************)
NoError == [type |-> "none", key |-> <<>>]

KeyError(key) == [type |-> "KeyError", key |-> key]

\* d[k] = v on a dict keyed by str: replaces the value in place or appends
dict_set(d, k, v) ==
    IF \E i \in 1..Len(d) : d[i].k = k
    THEN [i \in 1..Len(d) |-> IF d[i].k = k THEN [k |-> d[i].k, v |-> v] ELSE d[i]]
    ELSE Append(d, [k |-> k, v |-> v])

dict_has(d, k) == \E i \in 1..Len(d) : d[i].k = k

dict_get(d, k) == d[CHOOSE i \in 1..Len(d) : d[i].k = k].v

\* the position of the entry of `imports` whose key equals Module `target`, or 0
imports_index(mods, imports, target) ==
    IF \E i \in 1..Len(imports) : imports[i].k = mods[target].name
    THEN CHOOSE i \in 1..Len(imports) : imports[i].k = mods[target].name
    ELSE 0

\* as Module, the entry for the parent made without its tag
Module_parent_untagged(mods, name, parent) ==
    LET self == Len(mods) + 1
        new == [name     |-> name,
                parent   |-> parent,
                children |-> <<>>,
                imports  |-> IF parent # 0
                             THEN <<[k |-> mods[parent].name, v |-> {}]>>
                             ELSE <<>>]
        linked == IF parent # 0
                  THEN [mods EXCEPT ![parent].children = dict_set(@, name, self)]
                  ELSE mods
    IN  Append(linked, new)

\* Module(name, parent): the heap after the constructor ran; the new object is
\* the last one
Module(mods, name, parent) ==
    LET self == Len(mods) + 1
        new == [name     |-> name,
                parent   |-> parent,
                children |-> <<>>,
                imports  |-> IF parent # 0
                             THEN <<[k |-> mods[parent].name, v |-> {"parent"}]>>
                             ELSE <<>>]
        linked == IF parent # 0
                  THEN [mods EXCEPT ![parent].children = dict_set(@, name, self)]
                  ELSE mods
    IN  Append(linked, new)

\* as resolve, the KeyError carrying the whole dotted path that was asked for
RECURSIVE resolve_whole_key(_, _, _, _)
resolve_whole_key(mods, root_, target, keys) ==
    IF keys = <<>>
    THEN [target |-> target, error |-> NoError]
    ELSE IF target = 0
    THEN IF Head(keys) = mods[root_].name
         THEN resolve_whole_key(mods, root_, root_, Tail(keys))
         ELSE [target |-> 0, error |-> KeyError(keys[Len(keys)])]
    ELSE IF dict_has(mods[target].children, Head(keys))
         THEN resolve_whole_key(mods, root_,
                                dict_get(mods[target].children, Head(keys)), Tail(keys))
         ELSE [target |-> 0, error |-> KeyError(keys[Len(keys)])]

\* as resolve, a child that is missing ending the walk at the Module reached
RECURSIVE resolve_lenient(_, _, _, _)
resolve_lenient(mods, root_, target, keys) ==
    IF keys = <<>>
    THEN [target |-> target, error |-> NoError]
    ELSE IF target = 0
    THEN IF Head(keys) = mods[root_].name
         THEN resolve_lenient(mods, root_, root_, Tail(keys))
         ELSE [target |-> 0, error |-> KeyError(Head(keys))]
    ELSE IF dict_has(mods[target].children, Head(keys))
         THEN resolve_lenient(mods, root_,
                              dict_get(mods[target].children, Head(keys)), Tail(keys))
         ELSE [target |-> target, error |-> NoError]

\* the walk of add_import over the accumulated prefixes: `target` is 0 for the
\* seed dict {root.name: root}, else a Module indexed through __getitem__
RECURSIVE resolve(_, _, _, _)
resolve(mods, root_, target, keys) ==
    IF keys = <<>>
    THEN [target |-> target, error |-> NoError]
    ELSE IF target = 0
    THEN IF Head(keys) = mods[root_].name
         THEN resolve(mods, root_, root_, Tail(keys))
         ELSE [target |-> 0, error |-> KeyError(Head(keys))]
    ELSE IF dict_has(mods[target].children, Head(keys))
         THEN resolve(mods, root_, dict_get(mods[target].children, Head(keys)),
                      Tail(keys))
         ELSE [target |-> 0, error |-> KeyError(Head(keys))]

\* as resolve_name, never looking for the child
resolve_name_module_only(mods, target, import_) == target

\* the Module that `from module import name` resolves to once `module` resolved
\* to `target`: the child module.name if there is one, else `target`
resolve_name(mods, target, import_) ==
    IF import_.name # <<>>
       /\ dict_has(mods[target].children, import_.module \o <<".">> \o import_.name[1])
    THEN dict_get(mods[target].children, import_.module \o <<".">> \o import_.name[1])
    ELSE target

\* as imports_add, the entry set to the new tag alone
imports_add_overwrite(mods, self, target, tag) ==
    LET i == imports_index(mods, mods[self].imports, target)
    IN  IF i # 0
        THEN [mods EXCEPT ![self].imports[i].v = {tag}]
        ELSE [mods EXCEPT ![self].imports =
                      Append(@, [k |-> mods[target].name, v |-> {tag}])]

\* self.imports[target].add(tag) on the defaultdict(set)
imports_add(mods, self, target, tag) ==
    LET i == imports_index(mods, mods[self].imports, target)
    IN  IF i # 0
        THEN [mods EXCEPT ![self].imports[i].v = @ \cup {tag}]
        ELSE [mods EXCEPT ![self].imports =
                      Append(@, [k |-> mods[target].name, v |-> {tag}])]

\* Module.add_import: [error, modules, target]
add_import(mods, self, import_, tag, root_) ==
    LET walk_ == resolve(mods, root_, 0, accumulate(split(import_.module, ".")))
    IN  IF walk_.error # NoError
        THEN [error |-> walk_.error, modules |-> mods, target |-> 0]
        ELSE LET target == resolve_name(mods, walk_.target, import_)
             IN  [error   |-> NoError,
                  modules |-> imports_add(mods, self, target, tag),
                  target  |-> target]

\* Module.walk: the module, then the walks of its children in dict order
RECURSIVE walk(_, _)
RECURSIVE walk_all(_, _)
\* as walk, a module yielded after the modules below it
walk_children_first(mods, module) ==
    walk_all(mods, [i \in 1..Len(mods[module].children) |-> mods[module].children[i].v])
    \o <<module>>

walk(mods, module) ==
    <<module>> \o walk_all(mods, [i \in 1..Len(mods[module].children) |->
                                      mods[module].children[i].v])

walk_all(mods, children) ==
    IF children = <<>> THEN <<>>
    ELSE walk(mods, Head(children)) \o walk_all(mods, Tail(children))

(***************************************************************************)
(* graph.py: ImportVisitor.  An import statement of a file is               *)
(*   [type, module, names, level, ctx]                                      *)
(* where ctx lists the node's ancestors from its _parent up to the          *)
(* ast.Module node, which alone has no _parent.                             *)
(***************************************************************************)
IfTypeChecking == {"If(Name(TYPE_CHECKING))", "If(Attribute(TYPE_CHECKING))"}

IfNodes == IfTypeChecking \cup {"If(other)"}

FunctionNodes == {"FunctionDef", "AsyncFunctionDef"}

InnerNodes == IfNodes \cup FunctionNodes \cup {"ClassDef", "Try"}

\* as climb, looking at the import's own parent only
climb_once(ctx) == IF Head(ctx) \in FunctionNodes THEN "dynamic" ELSE "vanilla"

\* the `case _` branch: climb until a function definition or the node without
\* a _parent
RECURSIVE climb(_)
climb(ctx) ==
    IF Head(ctx) \in FunctionNodes THEN "dynamic"
    ELSE IF Len(ctx) = 1 THEN "vanilla"
    ELSE climb(Tail(ctx))

find_import_kind(ctx) ==
    IF ctx[1] \in IfTypeChecking /\ Len(ctx) >= 2 /\ ctx[2] = "Module"
    THEN "typing"
    ELSE IF ctx[1] \in IfNodes /\ Len(ctx) >= 2 /\ ctx[2] = "Module"
    THEN "conditional"
    ELSE climb(ctx)

ImportStatement(module, name) == [module |-> module, name |-> name]

\* visit_Import: one (statement, kind) per alias
visit_Import(node) ==
    LET kind == find_import_kind(node.ctx)
    IN  [i \in 1..Len(node.names) |->
            [import_ |-> ImportStatement(node.names[i], <<>>), kind |-> kind]]

\* as visit_ImportFrom, with no segment dropped for the level
visit_ImportFrom_level_ignored(node, module_) ==
    LET kind == find_import_kind(node.ctx)
        module == IF node.level # 0
                  THEN join(IF node.module # <<>> THEN Append(module_, node.module)
                                                  ELSE module_, ".")
                  ELSE node.module
    IN  [i \in 1..Len(node.names) |->
            [import_ |-> ImportStatement(module, <<node.names[i]>>), kind |-> kind]]

\* visit_ImportFrom: a relative import is resolved against node._module
visit_ImportFrom(node, module_) ==
    LET kind == find_import_kind(node.ctx)
        path == SubSeq(module_, 1, Len(module_) - node.level)
        module == IF node.level # 0
                  THEN join(IF node.module # <<>> THEN Append(path, node.module)
                                                  ELSE path, ".")
                  ELSE node.module
    IN  [i \in 1..Len(node.names) |->
            [import_ |-> ImportStatement(module, <<node.names[i]>>), kind |-> kind]]

\* visitor.visit(ast_): the imports of all import nodes, in visiting order
RECURSIVE visit(_, _)
visit(body, module_) ==
    IF body = <<>> THEN <<>>
    ELSE (IF Head(body).type = "Import"
          THEN visit_Import(Head(body))
          ELSE visit_ImportFrom(Head(body), module_))
         \o visit(Tail(body), module_)

(***************************************************************************)
(* misc.py: path_to_module_name.                                           *)
(***************************************************************************)
path_to_module_name(path, base, name) ==
    replace(
        strip(
            removesuffix(
                removesuffix(
                    removeprefix(path, IF name = <<>> THEN <<>>
                                       ELSE SubSeq(base, 1, Len(base) - Len(name))),
                    s_py),
                s_init),
            "/"),
        "/", ".")

(***************************************************************************)
(* graph.py: build_digraph.  The DiGraph is its adjacency, the dict         *)
(* node -> dict node -> [tags, cycle], in networkx's insertion order.       *)
(***************************************************************************)
add_node(g, n) == IF dict_has(g, n) THEN g ELSE Append(g, [k |-> n, v |-> <<>>])

add_edge(g, u, v, tags) ==
    LET g1 == add_node(add_node(g, u), v)
        i == CHOOSE j \in 1..Len(g1) : g1[j].k = u
    IN  [g1 EXCEPT ![i].v = dict_set(@, v, [tags |-> tags, cycle |-> "unset"])]

RECURSIVE add_nodes_from(_, _)
add_nodes_from(g, names) ==
    IF names = <<>> THEN g ELSE add_nodes_from(add_node(g, Head(names)), Tail(names))

\* the edges one Module contributes, in the order of its imports dict
RECURSIVE add_edges_of(_, _, _, _)
add_edges_of(g, mods, module, i) ==
    IF i > Len(mods[module].imports) THEN g
    ELSE add_edges_of(
             add_edge(g, mods[module].name, mods[module].imports[i].k,
                      mods[module].imports[i].v),
             mods, module, i + 1)

RECURSIVE add_edges_from(_, _, _)
add_edges_from(g, mods, walked_) ==
    IF walked_ = <<>> THEN g
    ELSE add_edges_from(add_edges_of(g, mods, Head(walked_), 1), mods, Tail(walked_))

has_edge(g, u, v) == dict_has(g, u) /\ dict_has(dict_get(g, u), v)

\* as edge_cycle, scoring the edge by its own tags alone
edge_cycle_own_tags(g, e_0, e_1, kwargs) ==
    IF has_edge(g, e_1, e_0)
    THEN cycle_severity(dict_get(dict_get(g, e_0), e_1).tags,
                        dict_get(dict_get(g, e_0), e_1).tags, kwargs)
    ELSE "None"

\* the `cycle` entry of the edge e_0 -> e_1
edge_cycle(g, e_0, e_1, kwargs) ==
    IF has_edge(g, e_1, e_0)
    THEN cycle_severity(dict_get(dict_get(g, e_0), e_1).tags,
                        dict_get(dict_get(g, e_1), e_0).tags, kwargs)
    ELSE "None"

\* [*tags]: the set, listed in the iteration order `order` (a set of one tag
\* lists in one way)
RECURSIVE tag_list(_, _)
tag_list(tags, order) ==
    IF Cardinality(tags) = 1 THEN <<CHOOSE t \in tags : TRUE>>
    ELSE IF order = <<>> THEN <<>>
    ELSE (IF Head(order) \in tags THEN <<Head(order)>> ELSE <<>>)
         \o tag_list(tags \ {Head(order)}, Tail(order))

\* build_digraph(root, **kwargs): [error, graph]; `order` is the order in which
\* this run's sets of str iterate
build_digraph(mods, root_, kwargs, order) ==
    LET walked_ == walk(mods, root_)
        nodes == add_nodes_from(<<>>, [i \in 1..Len(walked_) |-> mods[walked_[i]].name])
        g == add_edges_from(nodes, mods, walked_)
        listed == [i \in 1..Len(g) |->
                     [k |-> g[i].k,
                      v |-> [j \in 1..Len(g[i].v) |->
                               [k |-> g[i].v[j].k,
                                v |-> [tags  |-> tag_list(g[i].v[j].v.tags, order),
                                       cycle |-> edge_cycle(g, g[i].k, g[i].v[j].k,
                                                            kwargs)]]]]]
    IN  IF \E i \in 1..Len(g) : \E j \in 1..Len(g[i].v) :
               listed[i].v[j].v.cycle = "IndexError"
        THEN [error |-> [type |-> "IndexError", key |-> <<>>], graph |-> <<>>]
        ELSE [error |-> NoError, graph |-> listed]

\* the Modules after build_digraph(root, **kwargs): the `tags` of an edge is
\* the very set of the Module's imports, and the edges that have a reverse edge
\* pass theirs to cycle_severity as tags_a
build_digraph_modules(mods, root_, kwargs) ==
    LET walked_ == walk(mods, root_)
        g == add_edges_from(
                 add_nodes_from(<<>>, [i \in 1..Len(walked_) |-> mods[walked_[i]].name]),
                 mods, walked_)
    IN  [m \in 1..Len(mods) |->
            IF \A i \in 1..Len(walked_) : walked_[i] # m THEN mods[m]
            ELSE [mods[m] EXCEPT !.imports =
                     [i \in 1..Len(mods[m].imports) |->
                         LET e_0 == mods[m].name
                             e_1 == mods[m].imports[i].k
                         IN  [k |-> e_1,
                              v |-> IF has_edge(g, e_1, e_0)
                                    THEN tags_after(dict_get(dict_get(g, e_0), e_1).tags,
                                                    dict_get(dict_get(g, e_1), e_0).tags)
                                    ELSE mods[m].imports[i].v]]]]

\* _default_cycle_severity after build_digraph(root, **kwargs): cycle_severity
\* is called if some edge has a reverse edge
build_digraph_defaults(mods, root_, kwargs) ==
    LET walked_ == walk(mods, root_)
        g == add_edges_from(
                 add_nodes_from(<<>>, [i \in 1..Len(walked_) |-> mods[walked_[i]].name]),
                 mods, walked_)
    IN  IF \E i \in 1..Len(g) : \E j \in 1..Len(g[i].v) : has_edge(g, g[i].v[j].k, g[i].k)
        THEN defaults_after(kwargs)
        ELSE severity_defaults

\* cli.py _run: {key: {**graph[key]} for key in graph}
export(g) == [i \in 1..Len(g) |-> [k |-> g[i].k, v |-> g[i].v]]

(***************************************************************************)
(* pathlib: a Path is the sequence of its parts.                           *)
(***************************************************************************)
str_path(path) == join(path, "/")

path_name(path) == path[Len(path)]

path_parent(path) == SubSeq(path, 1, Len(path) - 1)

\* the characters of the model's file names, by code point
Alphabet == <<".", "/", "A", "B", "_", "a", "b", "c", "f", "i", "n", "o", "p", "r", "s",
              "t", "x", "y">>

ord(c) == CHOOSE i \in 1..Len(Alphabet) : Alphabet[i] = c

\* s < t on str, and on lists of str
RECURSIVE str_lt(_, _)
str_lt(s, t) ==
    IF t = <<>> THEN FALSE
    ELSE IF s = <<>> THEN TRUE
    ELSE IF Head(s) # Head(t) THEN ord(Head(s)) < ord(Head(t))
    ELSE str_lt(Tail(s), Tail(t))

RECURSIVE parts_lt(_, _)
parts_lt(p, q) ==
    IF q = <<>> THEN FALSE
    ELSE IF p = <<>> THEN TRUE
    ELSE IF Head(p) # Head(q) THEN str_lt(Head(p), Head(q))
    ELSE parts_lt(Tail(p), Tail(q))

f_init_py == s_init \o s_py

\* as sort_key, every file sorted by its own path
sort_key_plain(path) == path

\* key=lambda x: x.parent if x.name == "__init__.py" else x
sort_key(path) == IF path_name(path) = f_init_py THEN path_parent(path) ELSE path

(***************************************************************************)
(* The source trees of the model: any subset of these files under the      *)
(* directory foo, each file holding import statements out of Statements.   *)
(***************************************************************************)
source_path == <<s_foo>>

root_name == path_name(source_path)

Files == {<<s_foo, f_init_py>>,
          <<s_foo, s_a \o s_py>>,
          <<s_foo, s_b, f_init_py>>,
          <<s_foo, s_b, s_c \o s_py>>}

TopLevel == <<"Module">>

InFunction == <<"FunctionDef", "Module">>

InClass == <<"ClassDef", "Module">>

IfTyping == <<"If(Attribute(TYPE_CHECKING))", "Module">>

IfVersion == <<"If(other)", "Module">>

Import(name, ctx) ==
    [type |-> "Import", module |-> <<>>, names |-> <<name>>, level |-> 0, ctx |-> ctx]

ImportFrom(level, module, name, ctx) ==
    [type |-> "ImportFrom", module |-> module, names |-> <<name>>, level |-> level,
     ctx |-> ctx]

Statements ==
    {Import(n_foo_a, TopLevel),              \* import foo.a
     Import(n_foo_a, InClass),               \* class Q: import foo.a
     Import(n_foo_a, IfTyping),              \* if typing.TYPE_CHECKING: import foo.a
     Import(n_foo_b, TopLevel),              \* import foo.b
     Import(n_foo_b, InFunction),            \* def f(): import foo.b
     Import(n_foo_x, TopLevel),              \* import foo.x
     Import(s_foobar, TopLevel),             \* import foobar
     Import(s_os, TopLevel),                 \* import os
     ImportFrom(0, n_foo, s_a, TopLevel),    \* from foo import a
     ImportFrom(0, n_foo, s_x, IfVersion),   \* if sys.version ...: from foo import x
     ImportFrom(1, <<>>, s_a, TopLevel)}     \* from . import a

\* the lists of at most n statements
RECURSIVE Bodies(_)
Bodies(n) ==
    IF n = 0 THEN {<<>>}
    ELSE LET shorter == Bodies(n - 1)
         IN  shorter \cup {Append(b, st) : b \in {x \in shorter : Len(x) = n - 1},
                                           st \in Statements}

NoCall == [op |-> "none"]

(***************************************************************************)
(* Module.parse, build_digraph and the export, as _run calls them.         *)
(***************************************************************************)
Init ==
    /\ pc = "walk"
    /\ walked = <<>>
    /\ budget = MaxImports
    /\ modules = <<>>
    /\ module_map = <<>>
    /\ node_data = <<>>
    /\ link = 0
    /\ root = 0
    /\ graph = <<>>
    /\ data = <<>>
    /\ call = NoCall
    /\ ret = NoError
    /\ registered = {}
    /\ severity_defaults = default_cycle_severity

\* node_data[module] = imports, on the dict keyed by Module
node_data_set(mods, nd, module, imports) ==
    IF \E i \in 1..Len(nd) : mods[nd[i].k].name = mods[module].name
    THEN [i \in 1..Len(nd) |->
             IF mods[nd[i].k].name = mods[module].name
             THEN [k |-> nd[i].k, v |-> imports] ELSE nd[i]]
    ELSE Append(nd, [k |-> module, v |-> imports])

\* the (m, t) of visitor.imports with m["module"].startswith(root_name)
RECURSIVE first_party(_)
first_party(imports) ==
    IF imports = <<>> THEN <<>>
    ELSE (IF startswith(Head(imports).import_.module, root_name)
          THEN <<Head(imports)>> ELSE <<>>)
         \o first_party(Tail(imports))

\* one iteration of the first loop of Module.parse: the next file of the sorted
\* rglob, holding the import statements `body`
ParseFile(path, body) ==
    /\ LET name == path_to_module_name(str_path(path), str_path(source_path), root_name)
           module_ == IF path_name(path) = f_init_py
                      THEN Append(split(name, "."), <<".">>)
                      ELSE split(name, ".")
           imports == visit(body, module_)
           parent_name == rsplit_head(name, ".")
           parent == IF dict_has(module_map, parent_name)
                     THEN dict_get(module_map, parent_name) ELSE 0
           mods == Module(modules, name, parent)
           module == Len(mods)
       IN  /\ modules' = mods
           /\ module_map' = dict_set(module_map, name, module)
           /\ node_data' = node_data_set(mods, node_data, module, first_party(imports))
    /\ walked' = Append(walked, path)
    /\ budget' = budget - Len(body)
    /\ UNCHANGED <<pc, link, root, graph, data, call, ret, registered,
                   severity_defaults>>

\* what open(path) and ast.parse raise on a file that cannot be read or parsed
ParseErrors == {"OSError", "SyntaxError"}

\* as ParseFileFails, the loop going on to the next file
ParseFileSkipped(path, error) ==
    /\ ret' = [type |-> error, key |-> <<>>]
    /\ walked' = Append(walked, path)
    /\ UNCHANGED <<pc, budget, modules, module_map, node_data, link, root, graph, data,
                   call, registered, severity_defaults>>

\* one iteration of the first loop on a file that cannot be read or parsed: the
\* exception leaves Module.parse and _run
ParseFileFails(path, error) ==
    /\ pc' = "failed"
    /\ ret' = [type |-> error, key |-> <<>>]
    /\ walked' = Append(walked, path)
    /\ UNCHANGED <<budget, modules, module_map, node_data, link, root, graph, data,
                   call, registered, severity_defaults>>

\* the first loop is over: root = module_map[root_name]
EndWalk ==
    /\ pc = "walk"
    /\ IF dict_has(module_map, root_name)
       THEN /\ root' = dict_get(module_map, root_name)
            /\ pc' = "link"
            /\ link' = 1
            /\ ret' = ret
       ELSE /\ pc' = "failed"
            /\ ret' = KeyError(root_name)
            /\ UNCHANGED <<root, link>>
    /\ UNCHANGED <<walked, budget, modules, module_map, node_data, graph, data, call,
                   registered, severity_defaults>>

\* node_data.items() flattened: the add_import calls of the second loop
RECURSIVE link_calls(_)
link_calls(nd) ==
    IF nd = <<>> THEN <<>>
    ELSE [i \in 1..Len(Head(nd).v) |->
             [self |-> Head(nd).k, import_ |-> Head(nd).v[i].import_,
              tag |-> Head(nd).v[i].kind]]
         \o link_calls(Tail(nd))

\* one iteration of the second loop: module.add_import(import_, kind, root)
LinkImport ==
    /\ pc = "link"
    /\ link <= Len(link_calls(node_data))
    /\ LET c == link_calls(node_data)[link]
           r == add_import(modules, c.self, c.import_, c.tag, root)
       IN  /\ call' = [op |-> "add_import", self |-> c.self, import_ |-> c.import_,
                       tag |-> c.tag]
           /\ ret' = r.error
           /\ modules' = r.modules
           /\ IF r.error = NoError
              THEN /\ pc' = pc
                   /\ link' = link + 1
                   /\ registered' = registered \cup
                          {[owner |-> c.self, target |-> modules[r.target].name,
                            tag |-> c.tag]}
              ELSE /\ pc' = "failed"
                   /\ UNCHANGED <<link, registered>>
    /\ UNCHANGED <<walked, budget, module_map, node_data, root, graph, data,
                   severity_defaults>>

\* as ParseReturn, returning whether or not the link loop is through
ParseReturn_early ==
    /\ pc = "link"
    /\ pc' = "parsed"
    /\ UNCHANGED <<walked, budget, modules, module_map, node_data, link, root, graph,
                   data, call, ret, registered, severity_defaults>>

\* Module.parse returns root
ParseReturn ==
    /\ pc = "link"
    /\ link > Len(link_calls(node_data))
    /\ pc' = "parsed"
    /\ UNCHANGED <<walked, budget, modules, module_map, node_data, link, root, graph,
                   data, call, ret, registered, severity_defaults>>

\* the severities _run passes on: all five keys, the defaults unless overridden
RunOverrides ==
    {default_cycle_severity,
     [default_cycle_severity EXCEPT !["parent"] = "good"],
     [default_cycle_severity EXCEPT !["vanilla"] = "skip"]}

\* the tags that stand in a tag set of two or more tags
multi_tags(mods) ==
    UNION {UNION {IF Cardinality(mods[m].imports[i].v) >= 2
                  THEN mods[m].imports[i].v ELSE {} :
                  i \in 1..Len(mods[m].imports)} : m \in 1..Len(mods)}

\* the iteration orders a run's tag sets can have
Orders(tags) ==
    {o \in [1..Cardinality(tags) -> tags] : \A i, j \in DOMAIN o : i # j => o[i] # o[j]}

\* _run after Module.parse: build_digraph(root, ...) and the exported mapping
RunBuild(kwargs, order) ==
    /\ pc = "parsed"
    /\ LET r == build_digraph(modules, root, kwargs, order)
       IN  /\ call' = [op |-> "build_digraph", kwargs |-> kwargs]
           /\ ret' = r.error
           /\ graph' = r.graph
           /\ IF r.error = NoError
              THEN /\ pc' = "done"
                   /\ data' = export(r.graph)
              ELSE /\ pc' = "failed"
                   /\ data' = data
    /\ modules' = build_digraph_modules(modules, root, kwargs)
    /\ severity_defaults' = build_digraph_defaults(modules, root, kwargs)
    /\ UNCHANGED <<walked, budget, module_map, node_data, link, root, registered>>

\* the first loop of Module.parse takes its next file: any file that sorts after
\* the files taken so far, with any content the budget allows
WalkStep ==
    /\ pc = "walk"
    /\ \E path \in Files :
           /\ walked # <<>> => parts_lt(sort_key(walked[Len(walked)]), sort_key(path))
           /\ \/ \E body \in Bodies(budget) : ParseFile(path, body)
              \/ \E error \in ParseErrors : ParseFileFails(path, error)

BuildStep ==
    /\ pc = "parsed"
    /\ \E kwargs \in RunOverrides : \E order \in Orders(multi_tags(modules)) :
           RunBuild(kwargs, order)

Next ==
    \/ WalkStep
    \/ EndWalk
    \/ LinkImport
    \/ ParseReturn
    \/ BuildStep

Spec == Init /\ [][Next]_vars

(***************************************************************************)
(* The classes used directly, as the unit tests use them: a caller builds  *)
(* a tree with Module(name, parent) and calls add_import on its modules.   *)
(***************************************************************************)
ApiNames == {n_foo_a, n_foo_b, n_foo_b_c}

ApiImports ==
    {ImportStatement(n_foo_a, <<>>),        \* import foo.a
     ImportStatement(n_foo_b_c, <<>>),      \* import foo.b.c
     ImportStatement(n_foo, <<s_a>>),       \* from foo import a
     ImportStatement(n_foo, <<s_x>>),       \* from foo import x
     ImportStatement(n_foo_b, <<s_c>>),     \* from foo.b import c
     ImportStatement(n_foo_x, <<>>),        \* import foo.x
     ImportStatement(s_os, <<>>)}           \* import os

ApiKinds == {"vanilla", "typing"}

InitApi ==
    /\ pc = "api"
    /\ walked = <<>>
    /\ budget = MaxCalls
    /\ modules = Module(<<>>, n_foo, 0)
    /\ module_map = <<>>
    /\ node_data = <<>>
    /\ link = 0
    /\ root = 1
    /\ graph = <<>>
    /\ data = <<>>
    /\ call = NoCall
    /\ ret = NoError
    /\ registered = {}
    /\ severity_defaults = default_cycle_severity

\* Module(name, parent) for a name that is new, parent being the Module that
\* carries the name's dotted prefix
ApiModule(name) ==
    /\ pc = "api"
    /\ \A m \in 1..Len(modules) : modules[m].name # name
    /\ \E parent \in 1..Len(modules) :
           /\ modules[parent].name = rsplit_head(name, ".")
           /\ modules' = Module(modules, name, parent)
    /\ call' = [op |-> "Module", name |-> name]
    /\ ret' = NoError
    /\ UNCHANGED <<pc, walked, budget, module_map, node_data, link, root, graph, data,
                   registered, severity_defaults>>

\* self.add_import(import_, tag, root); a KeyError leaves the caller in control
ApiAddImport(self, import_, tag) ==
    /\ pc = "api"
    /\ budget > 0
    /\ LET r == add_import(modules, self, import_, tag, root)
       IN  /\ call' = [op |-> "add_import", self |-> self, import_ |-> import_,
                       tag |-> tag]
           /\ ret' = r.error
           /\ modules' = r.modules
           /\ registered' = IF r.error = NoError
                            THEN registered \cup
                                 {[owner |-> self, target |-> modules[r.target].name,
                                   tag |-> tag]}
                            ELSE registered
    /\ budget' = budget - 1
    /\ UNCHANGED <<pc, walked, module_map, node_data, link, root, graph, data,
                   severity_defaults>>

NextApi ==
    \/ \E name \in ApiNames : ApiModule(name)
    \/ \E self \in 1..Len(modules) : \E import_ \in ApiImports : \E tag \in ApiKinds :
           ApiAddImport(self, import_, tag)

SpecApi == InitApi /\ [][NextApi]_vars

(***************************************************************************)
(* cycle_severity and find_import_kind on their own: every input within    *)
(* the bounds, then the call.                                              *)
(***************************************************************************)
TagSets == (SUBSET ImportKind) \ {{}}

\* **kwargs of at most n keys
Overrides(n) ==
    UNION {[ks -> EdgeKind] : ks \in {x \in SUBSET ImportKind : Cardinality(x) <= n}}

InitSeverity ==
    /\ pc = "cycle_severity"
    /\ call \in [op : {"cycle_severity"}, tags_a : TagSets, tags_b : TagSets,
                 kwargs : Overrides(MaxOverrides)]
    /\ ret = "pending"
    /\ walked = <<>>
    /\ budget = 0
    /\ modules = <<>>
    /\ module_map = <<>>
    /\ node_data = <<>>
    /\ link = 0
    /\ root = 0
    /\ graph = <<>>
    /\ data = <<>>
    /\ registered = {}
    /\ severity_defaults = default_cycle_severity

Score ==
    /\ pc = "cycle_severity"
    /\ ret = "pending"
    /\ ret' = cycle_severity(call.tags_a, call.tags_b, call.kwargs)
    /\ call' = [call EXCEPT !.tags_a = tags_after(call.tags_a, call.tags_b)]
    /\ severity_defaults' = defaults_after(call.kwargs)
    /\ UNCHANGED <<pc, walked, budget, modules, module_map, node_data, link, root,
                   graph, data, registered>>

SpecSeverity == InitSeverity /\ [][Score]_vars

\* the ancestor chains of at most n nodes below the ast.Module node
RECURSIVE Chains(_)
Chains(n) ==
    IF n = 0 THEN {TopLevel}
    ELSE LET shorter == Chains(n - 1)
         IN  shorter \cup {<<node>> \o c : node \in InnerNodes,
                                          c \in {x \in shorter : Len(x) = n}}

InitKind ==
    /\ pc = "find_import_kind"
    /\ call \in [op : {"find_import_kind"}, ctx : Chains(MaxDepth)]
    /\ ret = "pending"
    /\ walked = <<>>
    /\ budget = 0
    /\ modules = <<>>
    /\ module_map = <<>>
    /\ node_data = <<>>
    /\ link = 0
    /\ root = 0
    /\ graph = <<>>
    /\ data = <<>>
    /\ registered = {}
    /\ severity_defaults = default_cycle_severity

Classify ==
    /\ pc = "find_import_kind"
    /\ ret = "pending"
    /\ ret' = find_import_kind(call.ctx)
    /\ UNCHANGED <<pc, walked, budget, modules, module_map, node_data, link, root,
                   graph, data, call, registered, severity_defaults>>

SpecKind == InitKind /\ [][Classify]_vars

(***************************************************************************)
(* One `from` import, relative or absolute, in one file of the full tree:  *)
(* the visitor sees it, the link loop attaches it, build_digraph scores.   *)
(***************************************************************************)
\* child._module of the nodes of the file at `path`
node_module(path) ==
    LET name == path_to_module_name(str_path(path), str_path(source_path), root_name)
    IN  IF path_name(path) = f_init_py
        THEN Append(split(name, "."), <<".">>)
        ELSE split(name, ".")

\* the Modules of the four files, as the first loop of Module.parse makes them
FullTree ==
    Module(Module(Module(Module(<<>>, n_foo, 0), n_foo_a, 1), n_foo_b, 1), n_foo_b_c, 3)

Contexts == {TopLevel, IfTyping, IfVersion, InFunction}

\* from <module> import <name> and from <level dots><module> import <name>
FromNodes ==
    {ImportFrom(0, m, n, ctx) :
         m \in {n_foo, n_foo_b, n_foo_x}, n \in {s_a, s_c, s_x}, ctx \in Contexts}
    \cup {ImportFrom(k, m, n, ctx) :
              k \in 1..MaxLevel, m \in {<<>>, s_a, s_b, s_foo}, n \in {s_a, s_c, s_x},
              ctx \in Contexts}

InitVisit ==
    /\ pc = "visit"
    /\ call \in [op : {"visit"}, path : Files, node : FromNodes]
    /\ ret = NoError
    /\ walked = <<>>
    /\ budget = 0
    /\ modules = FullTree
    /\ module_map = <<>>
    /\ node_data = <<>>
    /\ link = 0
    /\ root = 1
    /\ graph = <<>>
    /\ data = <<>>
    /\ registered = {}
    /\ severity_defaults = default_cycle_severity

\* the Module of the file the call is about
Owner ==
    CHOOSE m \in 1..Len(modules) :
        modules[m].name = path_to_module_name(str_path(call.path),
                                              str_path(source_path), root_name)

\* visitor.visit(ast_) and node_data[module] = [...] for the file
VisitFile ==
    /\ pc = "visit"
    /\ node_data' = node_data_set(modules, node_data, Owner,
                                  first_party(visit(<<call.node>>,
                                                    node_module(call.path))))
    /\ pc' = "attach"
    /\ UNCHANGED <<walked, budget, modules, module_map, link, root, graph, data, call,
                   ret, registered, severity_defaults>>

\* the link loop over the one file
AttachImport ==
    /\ pc = "attach"
    /\ IF link_calls(node_data) = <<>>
       THEN /\ pc' = "attached"
            /\ UNCHANGED <<modules, ret, registered>>
       ELSE LET c == link_calls(node_data)[1]
                r == add_import(modules, c.self, c.import_, c.tag, root)
            IN  /\ ret' = r.error
                /\ modules' = r.modules
                /\ pc' = IF r.error = NoError THEN "attached" ELSE "failed"
                /\ registered' = IF r.error = NoError
                                 THEN {[owner |-> c.self,
                                        target |-> modules[r.target].name,
                                        tag |-> c.tag]}
                                 ELSE registered
    /\ UNCHANGED <<walked, budget, module_map, node_data, link, root, graph, data, call,
                   severity_defaults>>

\* the severities _run passes on with at most one of its five options set
OneOverride ==
    {[default_cycle_severity EXCEPT ![k] = v] : k \in ImportKind, v \in EdgeKind}

\* _run after Module.parse: build_digraph with the severities, and the export
BuildVisited ==
    /\ pc = "attached"
    /\ \E kwargs \in OneOverride : \E order \in Orders(multi_tags(modules)) :
           LET r == build_digraph(modules, root, kwargs, order)
           IN  /\ graph' = r.graph
               /\ data' = export(r.graph)
               /\ call' = [op |-> "build_digraph", path |-> call.path,
                           node |-> call.node, kwargs |-> kwargs, order |-> order]
               /\ modules' = build_digraph_modules(modules, root, kwargs)
               /\ severity_defaults' = build_digraph_defaults(modules, root, kwargs)
    /\ pc' = "built"
    /\ UNCHANGED <<walked, budget, module_map, node_data, link, root, ret, registered>>

\* build_digraph called once more on the same root with the same severities,
\* in the same process: the sets iterate as they did
RebuildVisited ==
    /\ pc = "built"
    /\ LET r == build_digraph(modules, root, call.kwargs, call.order)
       IN  /\ graph' = r.graph
           /\ data' = export(r.graph)
    /\ modules' = build_digraph_modules(modules, root, call.kwargs)
    /\ severity_defaults' = build_digraph_defaults(modules, root, call.kwargs)
    /\ pc' = "rebuilt"
    /\ UNCHANGED <<walked, budget, module_map, node_data, link, root, call, ret,
                   registered>>

NextVisit ==
    \/ VisitFile
    \/ AttachImport
    \/ BuildVisited
    \/ RebuildVisited

SpecVisit == InitVisit /\ [][NextVisit]_vars

(***************************************************************************)
(* The first loop of Module.parse on its own, over every tree made of      *)
(* files whose names sort on either side of `__init__.py`: the rglob is    *)
(* sorted, then one Module is made per file.                               *)
(***************************************************************************)
TreeFiles == Files \cup {<<s_foo, s_A \o s_py>>,
                         <<s_foo, s_B, f_init_py>>,
                         <<s_foo, s_B, s_c \o s_py>>}

\* sorted(files, key=sort_key)
RECURSIVE sorted(_)
sorted(files) ==
    IF files = {} THEN <<>>
    ELSE LET first == CHOOSE p \in files :
                          \A q \in files \ {p} : parts_lt(sort_key(p), sort_key(q))
         IN  <<first>> \o sorted(files \ {first})

InitOrder ==
    /\ pc = "walk"
    /\ call \in [op : {"parse"}, tree : SUBSET TreeFiles]
    /\ walked = <<>>
    /\ budget = 0
    /\ modules = <<>>
    /\ module_map = <<>>
    /\ node_data = <<>>
    /\ link = 0
    /\ root = 0
    /\ graph = <<>>
    /\ data = <<>>
    /\ ret = NoError
    /\ registered = {}
    /\ severity_defaults = default_cycle_severity

\* one iteration of the first loop: the next file of the sorted rglob
WalkSorted ==
    /\ pc = "walk"
    /\ Len(walked) < Cardinality(call.tree)
    /\ ParseFile(sorted(call.tree)[Len(walked) + 1], <<>>)

\* the sorted rglob is exhausted
EndSorted ==
    /\ Len(walked) = Cardinality(call.tree)
    /\ EndWalk

NextOrder ==
    \/ WalkSorted
    \/ EndSorted

SpecOrder == InitOrder /\ [][NextOrder]_vars

(***************************************************************************)
(* path_to_module_name on its own, on the paths of its docstring: the       *)
(* source root /home/me/dev/project/src/project, given as `base` with or    *)
(* without the trailing separator, and the files in and beneath it.         *)
(***************************************************************************)
SampleRoot == <<<<>>, s_home, s_me, s_dev, s_project, s_src, s_project>>

SampleDirs == {<<>>, <<s_a>>, <<s_b>>, <<s_b, s_c>>}

SampleFiles == {f_init_py, s_code \o s_py, s_a \o s_py, s_b \o s_py, s_c \o s_py,
                s_x \o s_py, s_py \o s_py, s_a \o s_init \o s_py}

InitName ==
    /\ pc = "path_to_module_name"
    /\ call \in [op : {"path_to_module_name"}, dir : SampleDirs, file : SampleFiles,
                 base : {str_path(SampleRoot), str_path(SampleRoot) \o <<"/">>}]
    /\ ret = <<>>
    /\ walked = <<>>
    /\ budget = 0
    /\ modules = <<>>
    /\ module_map = <<>>
    /\ node_data = <<>>
    /\ link = 0
    /\ root = 0
    /\ graph = <<>>
    /\ data = <<>>
    /\ registered = {}
    /\ severity_defaults = default_cycle_severity

\* path_to_module_name(path, base, name) for a file of the sample root
ToModuleName ==
    /\ pc = "path_to_module_name"
    /\ ret' = path_to_module_name(str_path(SampleRoot \o call.dir \o <<call.file>>),
                                  call.base, path_name(SampleRoot))
    /\ pc' = "returned"
    /\ UNCHANGED <<walked, budget, modules, module_map, node_data, link, root,
                   graph, data, call, registered, severity_defaults>>

SpecName == InitName /\ [][ToModuleName]_vars

(***************************************************************************)
(* Properties.                                                             *)
(***************************************************************************)
Scored == pc = "cycle_severity" /\ ret # "pending"

\* rank of a severity: bad < complicated < good < skip
Rank(sev) ==
    CASE sev = "bad" -> 0
      [] sev = "complicated" -> 1
      [] sev = "good" -> 2
      [] sev = "skip" -> 3
      [] OTHER -> 4

\* the severity a kind maps to: the override if there is one, else the default
Mapped(kwargs, t) ==
    IF t \in DOMAIN kwargs THEN kwargs[t]
    ELSE CASE t = "vanilla" -> "bad"
           [] t = "typing" -> "skip"
           [] OTHER -> "complicated"

\* sev is the most severe of the severities the kinds of `tags` map to
MostSevere(sev, kwargs, tags) ==
    /\ \E t \in tags : sev = Mapped(kwargs, t)
    /\ \A t \in tags : Rank(sev) <= Rank(Mapped(kwargs, t))

Classified == pc = "find_import_kind" /\ ret # "pending"

Done == pc = "done"

\* the metadata of the edge u -> v of the graph
EdgeData(u, v) == dict_get(dict_get(graph, u), v)

HasEdge(u, v) == \E i \in 1..Len(graph) :
                     graph[i].k = u /\ \E j \in 1..Len(graph[i].v) : graph[i].v[j].k = v

Elements(list) == {list[i] : i \in 1..Len(list)}

Nodes == {graph[i].k : i \in 1..Len(graph)}

NonRoot == {m \in 1..Len(modules) : modules[m].name # root_name}

ParentName(m) == rsplit_head(modules[m].name, ".")

\* C4: every non-root module m has an edge m -> parent(m) tagged `parent`, whose
\* cycle is null exactly when parent(m) has no edge to m.
C4_ParentEdge ==
    Done =>
        \A m \in NonRoot :
            /\ HasEdge(modules[m].name, ParentName(m))
            /\ "parent" \in Elements(EdgeData(modules[m].name, ParentName(m)).tags)
            /\ (EdgeData(modules[m].name, ParentName(m)).cycle = "None")
                   <=> ~HasEdge(ParentName(m), modules[m].name)

\* no file of the tree held a first-party import
NoImports == \A i \in 1..Len(node_data) : node_data[i].v = <<>>

\* C5: in a tree without first-party imports the exported mapping gives every
\* non-root module the single entry parent: tags [parent], cycle null, and gives
\* the root the empty mapping.
C5_NoImportsMapping ==
    (Done /\ NoImports) =>
        /\ \A m \in NonRoot :
               /\ dict_has(data, modules[m].name)
               /\ dict_get(data, modules[m].name) =
                      <<[k |-> ParentName(m),
                         v |-> [tags |-> <<"parent">>, cycle |-> "None"]]>>
        /\ dict_has(data, root_name)
        /\ dict_get(data, root_name) = <<>>

\* the names of the Modules there are
Names(mods) == {mods[m].name : m \in 1..Len(mods)}

\* the tags module `self` holds for the target named t
TagsOf(mods, self, t) ==
    UNION {mods[self].imports[i].v :
               i \in {j \in 1..Len(mods[self].imports) : mods[self].imports[j].k = t}}

Entries(mods, self, t) ==
    Cardinality({i \in 1..Len(mods[self].imports) : mods[self].imports[i].k = t})

\* the dotted prefixes of a module path, shortest first
Prefixes(module) == accumulate(split(module, "."))

FullyRegistered(mods, module) ==
    \A i \in 1..Len(Prefixes(module)) : Prefixes(module)[i] \in Names(mods)

\* this step is a direct add_import call
AddImportCall == pc = "api" /\ budget' = budget - 1 /\ call'.op = "add_import"

\* all of module `self` but its entry for the target named t is as it was, and
\* at most one entry, for t, is new
OthersUnchanged(self, t) ==
    LET old == modules[self].imports
        new == modules'[self].imports
    IN  /\ Len(modules') = Len(modules)
        /\ \A m \in 1..Len(modules) : m # self => modules'[m] = modules[m]
        /\ [modules'[self] EXCEPT !.imports = <<>>] = [modules[self] EXCEPT !.imports = <<>>]
        /\ Len(new) \in {Len(old), Len(old) + 1}
        /\ \A i \in 1..Len(old) :
               /\ new[i].k = old[i].k
               /\ old[i].k # t => new[i] = old[i]
        /\ Len(new) = Len(old) + 1 => new[Len(new)].k = t

\* C6: `from M import N` with M fully registered puts the tag on module M.N if
\* M.N is a registered child of M and on module M otherwise, and then makes no
\* entry for M.N.
C6_FromImportTarget ==
    [][(AddImportCall /\ call'.import_.name # <<>>
        /\ FullyRegistered(modules, call'.import_.module)) =>
          LET self == call'.self
              M == call'.import_.module
              MN == M \o <<".">> \o call'.import_.name[1]
              T == IF MN \in Names(modules) THEN MN ELSE M
          IN  /\ ret' = NoError
              /\ TagsOf(modules', self, T) = TagsOf(modules, self, T) \cup {call'.tag}
              /\ Entries(modules', self, T) = 1
              /\ OthersUnchanged(self, T)
              /\ MN \notin Names(modules) => Entries(modules', self, MN) = 0]_vars

AfterAddImport == pc = "api" /\ call.op = "add_import"

\* `from foo import x` went to foo, after foo.a had been registered and imported
C6_Witness ==
    /\ AfterAddImport
    /\ call.import_ = ImportStatement(n_foo, <<s_x>>)
    /\ ret = NoError
    /\ call.tag \in TagsOf(modules, call.self, n_foo)
    /\ n_foo_a \in Names(modules)
    /\ \E r \in registered : r.target = n_foo_a

\* C7: add_import of a module path that is not fully registered fails with a
\* KeyError naming the first dotted prefix that is missing, and leaves every
\* import map and tag set as it was.
C7_UnregisteredKeyError ==
    [][(AddImportCall /\ ~FullyRegistered(modules, call'.import_.module)) =>
          LET P == Prefixes(call'.import_.module)
              first == CHOOSE i \in 1..Len(P) :
                           /\ P[i] \notin Names(modules)
                           /\ \A j \in 1..(i - 1) : P[j] \in Names(modules)
          IN  /\ ret' = KeyError(P[first])
              /\ modules' = modules
              /\ registered' = registered]_vars

\* `import foo.b.c` failed on foo.b, for an owner that had imports already
C7_Witness ==
    /\ AfterAddImport
    /\ call.import_ = ImportStatement(n_foo_b_c, <<>>)
    /\ ret = KeyError(n_foo_b)
    /\ \E r \in registered : r.owner = call.self

\* the registered name that is the longest dotted prefix of `full`
DottedPrefix(n, full) == n = full \/ startswith(full, n \o <<".">>)

LongestPrefix(mods, full) ==
    CHOOSE n \in Names(mods) :
        /\ DottedPrefix(n, full)
        /\ \A o \in Names(mods) : DottedPrefix(o, full) => Len(o) <= Len(n)

\* C8 as claimed: when the leading segments of the module path resolve and a
\* later one does not, the edge goes to the deepest module that did resolve.
C8_LongestResolvablePrefix ==
    (AfterAddImport /\ Prefixes(call.import_.module)[1] \in Names(modules)
     /\ ~FullyRegistered(modules, call.import_.module)) =>
        /\ ret = NoError
        /\ call.tag \in TagsOf(modules, call.self,
                               LongestPrefix(modules, call.import_.module))

\* C8 as the code has it: only the attribute name falls back.  With every
\* dotted prefix of the module path registered, the edge goes to the longest
\* registered dotted prefix of module.name; with a prefix missing, add_import
\* raises KeyError and attaches nothing.
C8_PrefixOnlyForName ==
    [][AddImportCall =>
          LET self == call'.self
              M == call'.import_.module
              full == IF call'.import_.name = <<>> THEN M
                      ELSE M \o <<".">> \o call'.import_.name[1]
          IN  IF FullyRegistered(modules, M)
              THEN LET T == LongestPrefix(modules, full)
                   IN  /\ ret' = NoError
                       /\ call'.tag \in TagsOf(modules', self, T)
                       /\ OthersUnchanged(self, T)
              ELSE /\ ret'.type = "KeyError"
                   /\ modules'[self].imports = modules[self].imports]_vars

\* `from foo.b import c` went to the registered module foo.b.c
C8_Witness ==
    /\ AfterAddImport
    /\ call.import_ = ImportStatement(n_foo_b, <<s_c>>)
    /\ ret = NoError
    /\ n_foo_b_c \in Names(modules)
    /\ call.tag \in TagsOf(modules, call.self, n_foo_b_c)
    /\ Entries(modules, call.self, n_foo_b) = IF modules[call.self].name = n_foo_b_c
                                              THEN 1 ELSE 0

\* C9: a module's import map holds one entry per resolved target, whose tag set
\* is the union of the kinds registered for that target, plus `parent` for the
\* module's parent; nothing is ever dropped or doubled.
C9_TagsAccumulate ==
    pc = "api" =>
        \A m \in 1..Len(modules) :
            LET imp == modules[m].imports
                implicit(t) == IF modules[m].parent # 0
                                  /\ t = modules[modules[m].parent].name
                               THEN {"parent"} ELSE {}
                explicit(t) == {r.tag : r \in {x \in registered :
                                                  x.owner = m /\ x.target = t}}
            IN  /\ \A i, j \in 1..Len(imp) : imp[i].k = imp[j].k => i = j
                /\ \A i \in 1..Len(imp) :
                       imp[i].v = explicit(imp[i].k) \cup implicit(imp[i].k)
                /\ \A t \in Names(modules) :
                       (explicit(t) \cup implicit(t) # {}) => Entries(modules, m, t) = 1

\* foo.a holds parent and two registered kinds on its one entry for foo
C9_Witness ==
    /\ pc = "api"
    /\ \E m \in 1..Len(modules) :
           /\ modules[m].name = n_foo_a
           /\ Entries(modules, m, n_foo) = 1
           /\ "parent" \in TagsOf(modules, m, n_foo)
           /\ Cardinality(TagsOf(modules, m, n_foo)) = 3

\* C11: an import enclosed by an `if` that stands directly at file top level
\* takes its kind from that `if` (typing for a TYPE_CHECKING test, conditional
\* for any other), whatever constructs lie between the two; dynamic and vanilla
\* are given only where no module-level `if` encloses the import.
C11_EnclosingModuleLevelIf ==
    Classified =>
        LET ctx == call.ctx
            enclosed == Len(ctx) >= 2 /\ ctx[Len(ctx) - 1] \in IfNodes
        IN  IF enclosed
            THEN ret = IF ctx[Len(ctx) - 1] \in IfTypeChecking
                       THEN "typing" ELSE "conditional"
            ELSE ret \in {"dynamic", "vanilla"}

\* the dotted path a file's imports are relative to: the module's name, with one
\* more segment for a package initializer
EnclosingPath(path) ==
    LET segments == split(modules[Owner].name, ".")
    IN  IF path[Len(path)] = f_init_py THEN Append(segments, <<"(init)">>)
        ELSE segments

\* the absolute module path that `level` dots and the suffix `module` stand for
AbsoluteTarget(path, level, module) ==
    LET p == EnclosingPath(path)
        kept == [i \in 1..(IF Len(p) > level THEN Len(p) - level ELSE 0) |-> p[i]]
    IN  dotted(IF module = <<>> THEN kept ELSE Append(kept, module))

\* the statement `from <absolute path of the node> import <name>`
AbsoluteNode(path, node) ==
    IF node.level = 0 THEN node
    ELSE ImportFrom(0, AbsoluteTarget(path, node.level, node.module), node.names[1],
                    node.ctx)

\* the Modules after the file's import was attached, had it been written as st
AttachedAs(st) ==
    IF startswith(st.module, root_name)
    THEN add_import(FullTree, Owner,
                    ImportStatement(st.module, <<st.names[1]>>),
                    find_import_kind(st.ctx), root)
    ELSE [error |-> NoError, modules |-> FullTree, target |-> 0]

\* C12: a relative `from` import of level k resolves as the absolute import of
\* the enclosing path minus its last k segments (a package initializer counting
\* one segment more) plus the suffix; and the tree gets the same edges, tags and
\* cycle values as with that absolute import.
C12_RelativeAsAbsolute ==
    (pc \in {"attached", "failed", "built"}) =>
        LET abs == AbsoluteNode(call.path, call.node)
            as == AttachedAs(abs)
        IN  /\ link_calls(node_data) =
                   IF startswith(abs.module, root_name)
                   THEN <<[self |-> Owner,
                           import_ |-> ImportStatement(abs.module, <<abs.names[1]>>),
                           tag |-> find_import_kind(abs.ctx)]>>
                   ELSE <<>>
            /\ ret = as.error
            /\ modules = as.modules
            /\ pc = "built" =>
                   \E order \in Orders(multi_tags(as.modules)) :
                       data = export(build_digraph(as.modules, root, call.kwargs,
                                                   order).graph)

\* `from .. import a` in foo/b/__init__.py made the edge foo.b -> foo.a
C12_Witness ==
    /\ pc = "built"
    /\ call.path = <<s_foo, s_b, f_init_py>>
    /\ call.node = ImportFrom(2, <<>>, s_a, TopLevel)
    /\ dict_has(dict_get(data, n_foo_b), n_foo_a)
    /\ dict_get(dict_get(data, n_foo_b), n_foo_a) =
           [tags |-> <<"vanilla">>, cycle |-> "None"]

\* the run built its graph with the severity of kind k set to something else
Overridden(k) ==
    /\ pc = "built"
    /\ call.kwargs[k] # Mapped(<<>>, k)
    /\ \A t \in ImportKind \ {k} : call.kwargs[t] = Mapped(<<>>, t)

\* the tags of the pair u <-> v that are scored
Survivors(u, v) ==
    LET a == Elements(EdgeData(u, v).tags)
        b == Elements(EdgeData(v, u).tags)
    IN  {t \in a \cup b : t = "vanilla" => ("vanilla" \in a /\ "vanilla" \in b)}

\* the score of the pair u <-> v with the default severities
DefaultScore(u, v) ==
    CHOOSE sev \in EdgeKind : MostSevere(sev, <<>>, Survivors(u, v))

\* k is a tag of the pair that decides its score under the severities kwargs
Dominant(k, kwargs, u, v) ==
    /\ k \in Survivors(u, v)
    /\ \A t \in Survivors(u, v) : Rank(Mapped(kwargs, k)) <= Rank(Mapped(kwargs, t))

\* C13 as claimed: overriding the severity of kind K changes the cycle value
\* only of the reciprocal pairs whose dominant surviving tag, the one deciding
\* the default score, is K.
C13_OnlyDominantPairs ==
    \A k \in ImportKind :
        Overridden(k) =>
            \A u \in Nodes : \A v \in Nodes :
                (HasEdge(u, v) /\ HasEdge(v, u) /\ ~Dominant(k, <<>>, u, v)) =>
                    EdgeData(u, v).cycle = DefaultScore(u, v)

\* C13 as the code has it: overriding the severity of kind K changes the cycle
\* value only of reciprocal pairs that have K among their surviving tags, and
\* only where K decides the score before or after the override; the tags and
\* the null cycle of one-way edges are as without the override.
C13_OnlyPairsCarryingKind ==
    \A k \in ImportKind :
        Overridden(k) =>
            /\ \E order \in Orders(multi_tags(modules)) :
                   LET plain == build_digraph(modules, root, <<>>, order).graph
                   IN  /\ Len(plain) = Len(graph)
                       /\ \A i \in 1..Len(graph) :
                              /\ plain[i].k = graph[i].k
                              /\ Len(plain[i].v) = Len(graph[i].v)
                              /\ \A j \in 1..Len(graph[i].v) :
                                     /\ plain[i].v[j].k = graph[i].v[j].k
                                     /\ plain[i].v[j].v.tags = graph[i].v[j].v.tags
                                     /\ (plain[i].v[j].v.cycle = "None")
                                            <=> (graph[i].v[j].v.cycle = "None")
            /\ \A u \in Nodes : \A v \in Nodes :
                   (HasEdge(u, v) /\ HasEdge(v, u)
                    /\ EdgeData(u, v).cycle # DefaultScore(u, v)) =>
                       \/ Dominant(k, <<>>, u, v)
                       \/ Dominant(k, call.kwargs, u, v)

\* typing set to bad turned the pair foo <-> foo.a, parent against typing, from
\* complicated to bad, next to a one-way edge left null
C13_Witness ==
    /\ Overridden("typing")
    /\ call.kwargs["typing"] = "bad"
    /\ HasEdge(n_foo, n_foo_a)
    /\ Survivors(n_foo, n_foo_a) = {"parent", "typing"}
    /\ DefaultScore(n_foo, n_foo_a) = "complicated"
    /\ EdgeData(n_foo, n_foo_a).cycle = "bad"
    /\ EdgeData(n_foo_b, n_foo).cycle = "None"

\* C14: a run's exported mapping is determined by the source tree and the
\* severities: any other run over the same tree gives the same mapping, the
\* order of modules, of imported modules and of each tags list included.
C14_Deterministic ==
    Done =>
        \A order \in Orders(multi_tags(modules)) :
            export(build_digraph(modules, root, call.kwargs, order).graph) = data

\* the position of the first Module of that name, in creation order
Created(name) == CHOOSE m \in 1..Len(modules) :
                     /\ modules[m].name = name
                     /\ \A o \in 1..(m - 1) : modules[o].name # name

\* the name of the module an attached import went to
TargetOf(c) ==
    LongestPrefix(modules, IF c.import_.name = <<>> THEN c.import_.module
                           ELSE c.import_.module \o <<".">> \o c.import_.name[1])

\* the first call of the link loop that registered target t for module m
FirstRegistered(m, t) ==
    LET calls == link_calls(node_data)
    IN  CHOOSE c \in 1..Len(calls) :
            /\ modules[calls[c].self].name = m /\ TargetOf(calls[c]) = t
            /\ \A o \in 1..(c - 1) :
                   ~(modules[calls[o].self].name = m /\ TargetOf(calls[o]) = t)

\* C15: the outer keys of the exported mapping stand in the order in which the
\* Modules were created, and the inner keys of a module in the order in which
\* its edges were inserted: the parent first, then the targets in the order of
\* their first registration.
C15_ExportOrder ==
    Done =>
        /\ \A i, j \in 1..Len(data) :
               i < j => Created(data[i].k) < Created(data[j].k)
        /\ \A i \in 1..Len(data) :
               LET m == data[i].k
                   inner == data[i].v
                   parent == IF m = root_name THEN <<>> ELSE <<rsplit_head(m, ".")>>
                   calls == link_calls(node_data)
                   targets == {TargetOf(calls[c]) :
                                   c \in {x \in 1..Len(calls) :
                                              modules[calls[x].self].name = m}}
               IN  /\ {inner[j].k : j \in 1..Len(inner)} = targets \cup Elements(parent)
                   /\ \A j, l \in 1..Len(inner) : inner[j].k = inner[l].k => j = l
                   /\ parent # <<>> => inner[1].k = parent[1]
                   /\ \A j, l \in 1..Len(inner) :
                          (j < l /\ inner[j].k \notin Elements(parent)) =>
                              FirstRegistered(m, inner[j].k) < FirstRegistered(m, inner[l].k)

\* foo.a imported foo.b and then itself: its inner keys are foo, foo.b, foo.a,
\* and the outer keys are foo, foo.a, foo.b
C15_Witness ==
    /\ Done
    /\ [i \in 1..Len(data) |-> data[i].k] = <<n_foo, n_foo_a, n_foo_b>>
    /\ [j \in 1..Len(data[2].v) |-> data[2].v[j].k] = <<n_foo, n_foo_b, n_foo_a>>

\* C16: analysing a root directory that holds no source file completes without
\* error, with an empty graph and mapping.
C16_EmptyTreeCompletes ==
    (walked = <<>> /\ pc # "walk") =>
        /\ pc # "failed"
        /\ ret = NoError
        /\ pc = "done" => (graph = <<>> /\ data = <<>>)

\* the first dotted segment of a module path
FirstSegment(module) == split(module, ".")[1]

\* C17: an import whose target is no module of the analysed tree (a standard
\* library or third-party module, whatever its name) is discarded before
\* resolution: it is not kept for the link loop, adds no edge or tag, and never
\* makes the run fail.
C17_ForeignDiscarded ==
    /\ \A i \in 1..Len(node_data) : \A j \in 1..Len(node_data[i].v) :
           FirstSegment(node_data[i].v[j].import_.module) = root_name
    /\ (pc = "failed" /\ call.op = "add_import") =>
           FirstSegment(call.import_.module) = root_name

\* C18: every source file under the root yields one Module of a unique dotted
\* name, whose parent (but for the root) is the Module named by the name minus
\* its last segment; every Module is reachable from the root through children
\* and so is a node of the graph, with its parent edge.
C18_EveryFileOneModule ==
    (pc \in {"parsed", "done"}) =>
        /\ Len(modules) = Len(walked)
        /\ \A i \in 1..Len(walked) :
               modules[i].name = path_to_module_name(str_path(walked[i]),
                                                     str_path(source_path), root_name)
        /\ \A m, o \in 1..Len(modules) : modules[m].name = modules[o].name => m = o
        /\ modules[root].parent = 0
        /\ \A m \in NonRoot :
               /\ modules[m].parent # 0
               /\ modules[modules[m].parent].name = ParentName(m)
               /\ dict_has(modules[modules[m].parent].children, modules[m].name)
        /\ \A m \in 1..Len(modules) : m \in Elements(walk(modules, root))
        /\ Done => \A m \in 1..Len(modules) :
                       /\ modules[m].name \in Nodes
                       /\ m \in NonRoot => HasEdge(modules[m].name, ParentName(m))

\* C19: a read or parse failure on a file aborts the run: the error is what the
\* run ends with, nothing runs after it, no graph is built and no mapping
\* exported.
C19_FailureAborts ==
    [][/\ pc # "failed"
       /\ ret'.type \in ParseErrors =>
              /\ pc' = "failed"
              /\ graph' = <<>>
              /\ data' = <<>>]_vars

\* the third file of a tree did not parse, after imports had been collected
C19_Witness ==
    /\ pc = "failed"
    /\ ret.type = "SyntaxError"
    /\ Len(walked) = 3
    /\ Len(modules) = 2
    /\ \E i \in 1..Len(node_data) : node_data[i].v # <<>>
    /\ graph = <<>>
    /\ data = <<>>

\* every import kept for the link loop is attached, to the most specific Module
\* there is for it, whenever that Module was created
AllAttached ==
    \A c \in 1..Len(link_calls(node_data)) :
        [owner  |-> link_calls(node_data)[c].self,
         target |-> TargetOf(link_calls(node_data)[c]),
         tag    |-> link_calls(node_data)[c].tag] \in registered

\* C20: no import is resolved before the Module of every file is created, and
\* no cycle is scored before the imports of every file are attached; so an
\* import of a module created later than the importing one resolves to it.
C20_PhaseOrder ==
    [][/\ Len(modules') # Len(modules) =>
              (pc = "walk" /\ registered = {} /\ call.op = "none")
       /\ (call'.op = "add_import" /\ <<call, link, pc>>' # <<call, link, pc>>) =>
              /\ pc = "link"
              /\ Len(modules') = Len(walked)
              /\ Len(modules') = Len(modules)
       /\ (graph' # graph \/ data' # data \/ call'.op = "build_digraph") =>
              /\ pc = "parsed"
              /\ link > Len(link_calls(node_data))
              /\ AllAttached
              /\ modules' = modules]_vars

\* foo/__init__.py imported foo.b, a module created two files later, and the
\* graph has the edge
C20_Witness ==
    /\ Done
    /\ modules[1].name = n_foo
    /\ Len(modules) >= 3
    /\ modules[3].name = n_foo_b
    /\ \E r \in registered : r.owner = 1 /\ r.target = n_foo_b
    /\ HasEdge(n_foo, n_foo_b)

\* file q lies in the directory dir or beneath it
InOrBeneath(q, dir) == Len(q) > Len(dir) /\ SubSeq(q, 1, Len(dir)) = dir

\* the initializer of the package the module of file p belongs to
PackageInit(p) ==
    (IF path_name(p) = f_init_py THEN path_parent(path_parent(p)) ELSE path_parent(p))
        \o <<f_init_py>>

\* the Module made for file p
ModuleOf(p) ==
    dict_get(module_map,
             path_to_module_name(str_path(p), str_path(source_path), root_name))

\* C21: the files are processed with each directory's `__init__.py` before
\* every other file in or beneath that directory; so the Module of a file whose
\* package has an initializer is made after its parent Module and is linked to
\* it: parent set, child among the parent's children, parent edge added.
C21_InitializerFirst ==
    \A j \in 1..Len(walked) :
        LET p == walked[j]
        IN  /\ path_name(p) = f_init_py =>
                   \A i \in 1..Len(walked) :
                       (i # j /\ InOrBeneath(walked[i], path_parent(p))) => j < i
            /\ PackageInit(p) \in call.tree =>
                   /\ \E i \in 1..(j - 1) : walked[i] = PackageInit(p)
                   /\ LET child == ModuleOf(p)
                          parent == ModuleOf(PackageInit(p))
                      IN  /\ parent < child
                          /\ modules[child].parent = parent
                          /\ dict_has(modules[parent].children, modules[child].name)
                          /\ dict_get(modules[parent].children, modules[child].name)
                                 = child
                          /\ modules[child].imports
                                 = <<[k |-> modules[parent].name, v |-> {"parent"}]>>

\* foo/A.py and foo/B/__init__.py, whose paths sort before foo/__init__.py,
\* were processed after it and are children of foo; foo/B/c.py is a child of
\* foo.B
C21_Witness ==
    /\ pc = "link"
    /\ walked = <<<<s_foo, f_init_py>>, <<s_foo, s_A \o s_py>>, <<s_foo, s_B, f_init_py>>,
                  <<s_foo, s_B, s_c \o s_py>>>>
    /\ modules[2].parent = 1
    /\ modules[3].parent = 1
    /\ modules[4].parent = 3
    /\ Len(modules[1].children) = 2

\* a step in which build_digraph ran
Built == call'.op = "build_digraph" /\ pc' \in {"built", "rebuilt"} /\ pc' # pc

\* C22: build_digraph and cycle_severity leave the Module tree and the default
\* severities as they were: children, import maps and tag sets are the same
\* after the call as before, the defaults are not changed by the overrides, and
\* a second build_digraph on the same root with the same overrides returns an
\* equal graph.
C22_BuildReadOnly ==
    [][Built =>
           /\ modules' = modules
           /\ severity_defaults' = severity_defaults
           /\ severity_defaults' = default_cycle_severity
           /\ pc' = "rebuilt" => (graph' = graph /\ data' = data)]_vars

\* a graph was built twice with an override on a tree in which foo imports
\* foo.a plainly: the pair foo <-> foo.a was scored without `vanilla`, which
\* foo still carries
C22_Witness ==
    /\ pc = "rebuilt"
    /\ call.kwargs # default_cycle_severity
    /\ \E i \in 1..Len(modules[1].imports) :
           /\ modules[1].imports[i].k = n_foo_a
           /\ modules[1].imports[i].v = {"vanilla"}
    /\ dict_get(dict_get(data, n_foo), n_foo_a).cycle
           = call.kwargs["parent"]

\* path_to_module_name has returned
Named == pc = "returned" /\ call.op = "path_to_module_name"

\* the segments of the dotted name the file of the call should get: the source
\* root, the directories below it and, but for an initializer, the file name
\* without its extension
Segments ==
    <<path_name(SampleRoot)>> \o call.dir
        \o (IF call.file = f_init_py THEN <<>>
            ELSE <<SubSeq(call.file, 1, Len(call.file) - Len(s_py))>>)

\* C23: path_to_module_name maps a package initializer to the dotted name of its
\* directory and every other `.py` file to its path relative to the parent of
\* the source root, separators replaced by dots and only the extension
\* stripped, for every file name and for `base` with or without a trailing
\* separator; the sample calls of the docstring return project and
\* project.code.
C23_ModuleName == Named => ret = dotted(Segments)

\* C24: a cycle severity is only ever given to an edge between two distinct
\* modules: the edge from a module to itself, made when the module imports an
\* attribute from its own name or imports itself, is exported with cycle = None.
C24_NoSelfCycle ==
    Done => \A i \in 1..Len(data) : \A j \in 1..Len(data[i].v) :
                data[i].v[j].v.cycle # "None" => data[i].v[j].k # data[i].k

\* the tags of a reciprocal pair that are left to score
Kept(tags_a, tags_b) ==
    {t \in tags_a \cup tags_b : t = "vanilla" => (t \in tags_a /\ t \in tags_b)}

\* C25: in every tree built by Module.parse each entry of every module's import
\* map has a non-empty tag set, and for every reciprocal pair the tags left
\* after the drop of `vanilla` are not empty; so cycle_severity always picks
\* from a non-empty list and build_digraph never fails while scoring.
C25_TagsNeverEmpty ==
    /\ \A m \in 1..Len(modules) : \A i \in 1..Len(modules[m].imports) :
           /\ modules[m].imports[i].v # {}
           /\ \A o \in 1..Len(modules) : \A j \in 1..Len(modules[o].imports) :
                  (/\ modules[m].imports[i].k = modules[o].name
                   /\ modules[o].imports[j].k = modules[m].name) =>
                      Kept(modules[m].imports[i].v, modules[o].imports[j].v) # {}
    /\ ret.type # "IndexError"
    /\ call.op = "build_digraph" =>
           /\ pc = "done"
           /\ \A i \in 1..Len(data) : \A j \in 1..Len(data[i].v) :
                  /\ data[i].v[j].v.tags # <<>>
                  /\ data[i].v[j].v.cycle \in EdgeKind \cup {"None"}

\* foo imports foo.a plainly and foo.a has only its parent entry for foo: the
\* pair was scored on {parent} alone
C25_Witness ==
    /\ Done
    /\ call.kwargs = default_cycle_severity
    /\ HasEdge(n_foo, n_foo_a)
    /\ EdgeData(n_foo, n_foo_a) = [tags |-> <<"vanilla">>, cycle |-> "complicated"]
    /\ EdgeData(n_foo_a, n_foo) = [tags |-> <<"parent">>, cycle |-> "complicated"]

====
